---- MODULE Spec2Model ----
(***************************************************************************)
(* Model of the Rust compilation checker (integration/rust_compiler.rs).   *)
(*                                                                         *)
(* Three specifications share the definitions below:                       *)
(*   Spec       concurrent check calls (check_code, check_code_with_deps,  *)
(*              quick_check) on one shared RustCompiler, over a model of   *)
(*              the file system under temp_dir;                            *)
(*   ParseSpec  parse_cargo_output applied to one captured tool output,    *)
(*              drawn from a bounded set of byte streams;                  *)
(*   WriteSpec  the manifest and source text each check variant writes,    *)
(*              for snippets and dependency lists drawn from bounded sets. *)
(*                                                                         *)
(* A captured byte stream is a sequence of tokens.  A token is a newline,  *)
(* an invalid UTF-8 byte, a run of text that is not JSON, or a complete    *)
(* JSON value described by the fields the parser looks at.                 *)
(***************************************************************************)
EXTENDS Integers, Sequences, FiniteSets, TLC

\* ------------------------------------------------------------------ bounds
NumCalls == 2      \* concurrent check calls on the shared RustCompiler
MaxLen   == 3      \* tokens in a captured stdout stream (ParseSpec)
MaxCode  == 3      \* pieces of text in a snippet (WriteSpec)
MaxDeps  == 2      \* supplied (name, version) pairs (WriteSpec)

\* ------------------------------------------------------------ byte streams
Tok(top) ==
  [top |-> top, rendered |-> "absent", level |-> "absent",
   code |-> "absent", spans |-> "absent"]

\* a JSON object with a "message" member that is itself an object
Msg(rendered, level, code, spans) ==
  [top |-> "payload", rendered |-> rendered, level |-> level,
   code |-> code, spans |-> spans]

NL      == Tok("nl")        \* the byte 0x0A
GARBAGE == Tok("garbage")   \* valid UTF-8 text that is not a JSON value
BADBYTE == Tok("badbyte")   \* a byte sequence that is not valid UTF-8
FFFD    == Tok("fffd")      \* U+FFFD REPLACEMENT CHARACTER
SCALAR  == Tok("scalar")    \* a JSON value that is not an object, e.g. 42
NOMSG   == Tok("nomsg")     \* a JSON object without a "message" member
MSGSTR  == Tok("msgstr")    \* a JSON object whose "message" is a string

JsonTops == {"scalar", "nomsg", "msgstr", "payload"}

LevelStrings == {"error", "warning", "note", "help"}

\* The diagnostic payloads the tool may emit: every severity (known, unknown,
\* absent, not a string) with rendered text, Error and Warning payloads
\* without rendered text, and payloads with and without code and spans.
Payloads ==
     { Msg("r1", l, "absent", "absent") :
         l \in LevelStrings \cup {"fatal", "absent", "nonstr"} }
  \cup { Msg("absent", l, "absent", "absent") : l \in {"error", "warning"} }
  \cup { Msg("r2", l, "E0308", "one") : l \in {"error", "warning"} }
  \cup { Msg("r2", "error", "nonstr", "two"),
         Msg("nonstr", "error", "E0308", "one") }

Tokens == {NL, GARBAGE, BADBYTE, SCALAR, NOMSG, MSGSTR} \cup Payloads

RECURSIVE SeqsUpTo(_, _)
SeqsUpTo(S, n) ==
  IF n = 0 THEN { <<>> }
  ELSE LET shorter == SeqsUpTo(S, n - 1)
       IN  shorter \cup { Append(s, x) : s \in { t \in shorter : Len(t) = n - 1 }, x \in S }

Streams == SeqsUpTo(Tokens, MaxLen)

\* the (exit status, stdout, stderr) a finished child process hands back
ExitStatuses == {0, 101}
StderrOf(status) == IF status = 0 THEN <<>> ELSE <<GARBAGE, BADBYTE>>

Outputs ==
  { [status |-> st, stdout |-> so, stderr |-> StderrOf(st)] :
      st \in ExitStatuses, so \in Streams }

\* ------------------------------------------------------------ Option, Result
None    == <<>>
Some(x) == <<x>>

\* ------------------------------------------------------- parse_cargo_output
\* String::from_utf8_lossy: every invalid byte sequence becomes U+FFFD.
from_utf8_lossy_drop(bytes) == SelectSeq(bytes, LAMBDA b : b # BADBYTE)

from_utf8_lossy(bytes) ==
  [i \in 1..Len(bytes) |-> IF bytes[i] = BADBYTE THEN FFFD ELSE bytes[i]]

\* str::lines: split at newlines; the final line ending is optional, so a
\* trailing newline opens no further line.
RECURSIVE lines_from(_, _)
lines_from(s, cur) ==
  IF s = <<>> THEN (IF cur = <<>> THEN <<>> ELSE <<cur>>)
  ELSE IF Head(s) = NL THEN <<cur>> \o lines_from(Tail(s), <<>>)
  ELSE lines_from(Tail(s), Append(cur, Head(s)))

lines(s) == lines_from(s, <<>>)

\* serde_json::from_str::<Value>(line) is Ok exactly when the line is one
\* complete JSON value.
from_str_ok(line) == Len(line) = 1 /\ line[1].top \in JsonTops

\* msg.get("message") is Some for an object that has the member
has_message(v) == v.top \in {"msgstr", "payload"}

\* message.get("rendered").and_then(|v| v.as_str())
rendered_requires_spans(v) ==
  IF v.top = "payload" /\ v.rendered \notin {"absent", "nonstr"}
       /\ v.spans \notin {"absent", "empty"}
  THEN Some(v.rendered) ELSE None

rendered(v) ==
  IF v.top = "payload" /\ v.rendered \notin {"absent", "nonstr"}
  THEN Some(v.rendered) ELSE None

\* message.get("level").and_then(|v| v.as_str()).unwrap_or("error")
level_str(v) == IF v.level \in {"absent", "nonstr"} THEN "error" ELSE v.level

\* match level { "error" => Error, ..., _ => Error }
match_level_unknown_note(level) ==
  CASE level = "error"   -> "Error"
    [] level = "warning" -> "Warning"
    [] level = "note"    -> "Note"
    [] level = "help"    -> "Help"
    [] OTHER             -> "Note"

match_level(level) ==
  CASE level = "error"   -> "Error"
    [] level = "warning" -> "Warning"
    [] level = "note"    -> "Note"
    [] level = "help"    -> "Help"
    [] OTHER             -> "Error"

\* message.get("code").and_then(|c| c.get("code")).and_then(|v| v.as_str())
code_of(v) == IF v.code \in {"absent", "nonstr"} THEN None ELSE Some(v.code)

\* message.get("spans").and_then(|s| s.as_array()): the location list
Span(line, column, file) ==
  [line_start |-> line, column_start |-> column, file_name |-> file]

spans_of(v) ==
  CASE v.spans = "one" -> << Span(3, 5, "src/main.rs") >>
    [] v.spans = "two" -> << Span(7, 1, "src/main.rs"), Span(2, 9, "src/lib.rs") >>
    [] OTHER           -> <<>>

\* .and_then(|arr| arr.first())
first(arr) == IF arr = <<>> THEN None ELSE Some(arr[1])

line_of(v)   == IF first(spans_of(v)) = None THEN None
                ELSE Some(first(spans_of(v))[1].line_start)
column_of(v) == IF first(spans_of(v)) = None THEN None
                ELSE Some(first(spans_of(v))[1].column_start)
file_of(v)   == IF first(spans_of(v)) = None THEN None
                ELSE Some(first(spans_of(v))[1].file_name)

CompilationError(v) ==
  [level      |-> match_level(level_str(v)),
   message    |-> rendered(v)[1],
   code       |-> code_of(v),
   line       |-> line_of(v),
   column     |-> column_of(v),
   file       |-> file_of(v),
   suggestion |-> None]

\* Vec::push
push_front(vec, e) == <<e>> \o vec

push(vec, e) == Append(vec, e)

\* match error.level { Error => errors.push, Warning => warnings.push, _ => {} }
classify_note_as_warning(acc, error) ==
  CASE error.level = "Error"   -> [acc EXCEPT !.errors = push(acc.errors, error)]
    [] error.level = "Warning" -> [acc EXCEPT !.warnings = push(acc.warnings, error)]
    [] OTHER                   -> [acc EXCEPT !.warnings = push(acc.warnings, error)]

classify(acc, error) ==
  CASE error.level = "Error"   -> [acc EXCEPT !.errors = push(acc.errors, error)]
    [] error.level = "Warning" -> [acc EXCEPT !.warnings = push(acc.warnings, error)]
    [] OTHER                   -> acc

\* the else-branch of `if let Ok(msg) = serde_json::from_str(line)`: nothing
abort_on_unparseable(acc) == [acc EXCEPT !.ok = FALSE]

skip_unparseable(acc) == acc

\* the body of `for line in stdout_str.lines()`
parse_line(acc, line) ==
  IF ~from_str_ok(line) THEN skip_unparseable(acc)
  ELSE IF ~has_message(line[1]) THEN acc
  ELSE IF rendered(line[1]) = None THEN acc
  ELSE classify(acc, CompilationError(line[1]))

RECURSIVE parse_loop(_, _)
parse_loop(acc, ls) ==
  IF ls = <<>> \/ ~acc.ok THEN acc
  ELSE parse_loop(parse_line(acc, Head(ls)), Tail(ls))

\* CompilationResult { success: errors.is_empty(), errors, warnings, .. }
CompilationResult_clean_only(errors, warnings, stdout, stderr) ==
  [success  |-> (errors = <<>> /\ warnings = <<>>),
   errors   |-> errors,
   warnings |-> warnings,
   stdout   |-> stdout,
   stderr   |-> stderr]

CompilationResult(errors, warnings, stdout, stderr) ==
  [success  |-> (errors = <<>>),
   errors   |-> errors,
   warnings |-> warnings,
   stdout   |-> stdout,
   stderr   |-> stderr]

NoResult == CompilationResult(<<>>, <<>>, <<>>, <<>>)

Ok(result) == [kind |-> "Ok", value |-> result]
Err(what)  == [kind |-> what, value |-> NoResult]
Pending    == [kind |-> "Pending", value |-> NoResult]

IsErr(r) == r.kind \in {"SetupError", "InvocationError", "ParseError", "CleanupError"}

parse_cargo_output(stdout, stderr) ==
  LET stdout_str == from_utf8_lossy(stdout)
      stderr_str == from_utf8_lossy(stderr)
      acc == parse_loop([ok |-> TRUE, errors |-> <<>>, warnings |-> <<>>],
                        lines(stdout_str))
  IN  IF acc.ok
      THEN Ok(CompilationResult(acc.errors, acc.warnings, stdout_str, stderr_str))
      ELSE Err("ParseError")

\* parse_rustc_output delegates
parse_rustc_output(stdout, stderr) == parse_cargo_output(stdout, stderr)

\* ------------------------------------------------------------- file system
\* A path under temp_dir: temp_dir/check_<id><ext>/<rel...>
Path(id, ext, rel) == [id |-> id, ext |-> ext, rel |-> rel]

NoPath == Path(0, "", <<>>)

\* self.temp_dir.join(format!("check_{}", uuid))
project_dir_of(uuid) == Path(uuid, "", <<>>)

\* self.temp_dir.join(format!("check_{}.rs", uuid))
temp_file_of(uuid) == Path(uuid, ".rs", <<>>)

\* Path::join
join(dir, name) == [dir EXCEPT !.rel = Append(dir.rel, name)]

\* the entry directly under temp_dir that a path lies in
Root(p) == [p EXCEPT !.rel = <<>>]

\* fs::remove_dir_all / fs::remove_file on an entry directly under temp_dir
remove_all(files, root) == { p \in files : Root(p) # root }

\* a removal that fails leaves the entry itself, with all or none of what
\* lay under it
remove_failed(files, root) ==
  { files, { p \in files : Root(p) # root \/ p = root } }

\* uuid::Uuid::new_v4(): 122 random bits; modelled as a draw that never
\* repeats an identifier drawn before.
UuidSpace == 1..NumCalls

new_v4_repeating(drawn) == UuidSpace

new_v4(drawn) == UuidSpace \ drawn

\* ------------------------------------------------------------ the tool
CleanOutput ==
  [status |-> 0, stdout |-> <<>>, stderr |-> <<>>]

FailingOutput ==
  [status |-> 101,
   stdout |-> << Msg("r2", "error", "E0308", "one"), NL, GARBAGE >>,
   stderr |-> << GARBAGE, BADBYTE >>]

NoOutput == [status |-> 0, stdout |-> <<>>, stderr |-> <<>>]

\* what cargo / rustc may hand back to a check call (Spec)
CapturedOutputs == {CleanOutput, FailingOutput}

\* ------------------------------------------------------------------ state
Calls == 1..NumCalls

VARIABLES
  pc,          \* pc[c]: where call c stands
  variant,     \* variant[c]: "Full", "WithDependencies", "Quick" or "-"
  sandbox,     \* sandbox[c]: project_dir / temp_file of call c, or NoPath
  output,      \* output[c]: what Command::output() returned to call c
  result,      \* result[c]: the local `result` of call c
  ret,         \* ret[c]: what call c returned
  fs,          \* the paths that exist under temp_dir
  drawn,       \* identifiers new_v4 has produced
  created,     \* created[c]: call c's sandbox came into existence on disk
  faults,      \* faults[c]: the operations that failed in call c
  invocations, \* invocations[c]: times call c ran Command::output()
  touched,     \* <<c, root>>: call c created, wrote, read or removed under root
  pOutput,     \* ParseSpec: the captured output handed to the parser
  pRet,        \* ParseSpec: what the parser returned
  pPc,         \* ParseSpec: "captured" or "returned"
  wCode,       \* WriteSpec: the caller's snippet
  wDeps,       \* WriteSpec: the caller's (name, version) pairs
  wMode,       \* WriteSpec: the variant called, or "-"
  wFiles,      \* WriteSpec: <<file, text>> for every file the call wrote
  wPc          \* WriteSpec: "input" or "written"

lifeVars == <<pc, variant, sandbox, output, result, ret, fs, drawn, created,
              faults, invocations, touched>>
parseVars == <<pOutput, pRet, pPc>>
writeVars == <<wCode, wDeps, wMode, wFiles, wPc>>
vars == <<pc, variant, sandbox, output, result, ret, fs, drawn, created,
          faults, invocations, touched, pOutput, pRet, pPc,
          wCode, wDeps, wMode, wFiles, wPc>>

\* RustCompiler::new() has created temp_dir; no call has started
LifeInit ==
  /\ pc          = [c \in Calls |-> "idle"]
  /\ variant     = [c \in Calls |-> "-"]
  /\ sandbox     = [c \in Calls |-> NoPath]
  /\ output      = [c \in Calls |-> NoOutput]
  /\ result      = [c \in Calls |-> NoResult]
  /\ ret         = [c \in Calls |-> Pending]
  /\ fs          = {}
  /\ drawn       = {}
  /\ created     = [c \in Calls |-> FALSE]
  /\ faults      = [c \in Calls |-> {}]
  /\ invocations = [c \in Calls |-> 0]
  /\ touched     = {}

ParseIdle ==
  /\ pOutput = NoOutput
  /\ pRet    = Pending
  /\ pPc     = "idle"

WriteIdle ==
  /\ wCode  = <<>>
  /\ wDeps  = <<>>
  /\ wMode  = "-"
  /\ wFiles = {}
  /\ wPc    = "idle"

Init ==
  /\ LifeInit
  /\ ParseIdle
  /\ WriteIdle

\* `?` on a failed operation: the call returns Err at once
Fail(c, op, what) ==
  /\ faults' = [faults EXCEPT ![c] = @ \cup {op}]
  /\ ret'    = [ret EXCEPT ![c] = Err(what)]
  /\ pc'     = [pc EXCEPT ![c] = "done"]

\* lines 60-61 and 109-110: name the project directory and create it
begin_project(c, v) ==
  /\ pc[c] = "idle"
  /\ \E uuid \in new_v4(drawn), ok \in BOOLEAN :
       LET project_dir == project_dir_of(uuid) IN
       /\ drawn'   = drawn \cup {uuid}
       /\ variant' = [variant EXCEPT ![c] = v]
       /\ sandbox' = [sandbox EXCEPT ![c] = project_dir]
       /\ touched' = touched \cup { <<c, project_dir>> }
       /\ IF ok
          THEN /\ fs'      = fs \cup {project_dir}
               /\ created' = [created EXCEPT ![c] = TRUE]
               /\ pc'      = [pc EXCEPT ![c] = "manifest"]
               /\ UNCHANGED <<faults, ret>>
          ELSE /\ Fail(c, "create_dir_all", "SetupError")
               /\ UNCHANGED <<fs, created>>
  /\ UNCHANGED <<output, result, invocations, parseVars, writeVars>>

check_code(c) == begin_project(c, "Full")

check_code_with_deps(c) == begin_project(c, "WithDependencies")

\* fs::write(path, ..)?: on failure the file may or may not have been created
write_step(c, at, path, next) ==
  /\ pc[c] = at
  /\ \E ok \in BOOLEAN, exists \in BOOLEAN :
       /\ ok => exists
       /\ fs' = IF exists THEN fs \cup {path} ELSE fs
       /\ IF ok
          THEN pc' = [pc EXCEPT ![c] = next] /\ UNCHANGED <<faults, ret>>
          ELSE Fail(c, "write", "SetupError")
  /\ touched' = touched \cup { <<c, Root(sandbox[c])>> }
  /\ UNCHANGED <<variant, sandbox, output, result, drawn, created, invocations,
                 parseVars, writeVars>>

\* lines 71 and 127
write_manifest(c) ==
  write_step(c, "manifest", join(sandbox[c], "Cargo.toml"), "srcdir")

\* lines 74-75 and 130-131: fs::create_dir_all(&src_dir)?
create_src_dir(c) ==
  /\ pc[c] = "srcdir"
  /\ \E ok \in BOOLEAN :
       IF ok
       THEN /\ fs' = fs \cup {join(sandbox[c], "src")}
            /\ pc' = [pc EXCEPT ![c] = "mainrs"]
            /\ UNCHANGED <<faults, ret>>
       ELSE /\ Fail(c, "create_dir_all", "SetupError")
            /\ UNCHANGED fs
  /\ touched' = touched \cup { <<c, Root(sandbox[c])>> }
  /\ UNCHANGED <<variant, sandbox, output, result, drawn, created, invocations,
                 parseVars, writeVars>>

\* lines 84 and 132
write_main(c) ==
  write_step(c, "mainrs", join(join(sandbox[c], "src"), "main.rs"), "spawn")

\* lines 154-155: name the temporary file and write the snippet to it
quick_check(c) ==
  /\ pc[c] = "idle"
  /\ \E uuid \in new_v4(drawn), ok \in BOOLEAN, exists \in BOOLEAN :
       LET temp_file == temp_file_of(uuid) IN
       /\ ok => exists
       /\ drawn'   = drawn \cup {uuid}
       /\ variant' = [variant EXCEPT ![c] = "Quick"]
       /\ sandbox' = [sandbox EXCEPT ![c] = temp_file]
       /\ touched' = touched \cup { <<c, temp_file>> }
       /\ fs'      = IF exists THEN fs \cup {temp_file} ELSE fs
       /\ created' = [created EXCEPT ![c] = exists]
       /\ IF ok
          THEN pc' = [pc EXCEPT ![c] = "spawn"] /\ UNCHANGED <<faults, ret>>
          ELSE Fail(c, "write", "SetupError")
  /\ UNCHANGED <<output, result, invocations, parseVars, writeVars>>

\* lines 87-91, 135-139, 158-164: Command::new(..).output()?
\* cargo leaves its target directory in the project directory it runs in.
spawn(c) ==
  /\ pc[c] = "spawn"
  /\ invocations' = [invocations EXCEPT ![c] = @ + 1]
  /\ touched' = touched \cup { <<c, Root(sandbox[c])>> }
  /\ \E ok \in BOOLEAN :
       IF ok
       THEN /\ \E out \in CapturedOutputs : output' = [output EXCEPT ![c] = out]
            /\ fs' = IF variant[c] = "Quick" THEN fs
                     ELSE fs \cup {join(sandbox[c], "target")}
            /\ pc' = [pc EXCEPT ![c] = "parse"]
            /\ UNCHANGED <<faults, ret>>
       ELSE /\ Fail(c, "spawn", "InvocationError")
            /\ UNCHANGED <<output, fs>>
  /\ UNCHANGED <<variant, sandbox, result, drawn, created, parseVars, writeVars>>

\* the accumulators of parse_cargo_output are locals, fresh in every call;
\* were they fields of the shared RustCompiler, an earlier call's errors
\* would stay in them
parse_keeping_accumulators(c) ==
  /\ pc[c] = "parse"
  /\ LET r == parse_cargo_output(output[c].stdout, output[c].stderr)
         kept == IF \E d \in Calls \ {c} : result[d].errors # <<>>
                 THEN result[CHOOSE d \in Calls \ {c} : result[d].errors # <<>>].errors
                 ELSE <<>>
     IN  /\ result' = [result EXCEPT ![c] =
                         CompilationResult(kept \o r.value.errors, r.value.warnings,
                                           r.value.stdout, r.value.stderr)]
         /\ pc'     = [pc EXCEPT ![c] = "cleanup"]
         /\ UNCHANGED ret
  /\ UNCHANGED <<variant, sandbox, output, fs, drawn, created, faults,
                 invocations, touched, parseVars, writeVars>>

\* lines 94, 142, 167: let result = self.parse_..._output(..)?
parse(c) ==
  /\ pc[c] = "parse"
  /\ LET r == IF variant[c] = "Quick"
              THEN parse_rustc_output(output[c].stdout, output[c].stderr)
              ELSE parse_cargo_output(output[c].stdout, output[c].stderr)
     IN  IF r.kind = "Ok"
         THEN /\ result' = [result EXCEPT ![c] = r.value]
              /\ pc'     = [pc EXCEPT ![c] = "cleanup"]
              /\ UNCHANGED ret
         ELSE /\ ret' = [ret EXCEPT ![c] = r]
              /\ pc'  = [pc EXCEPT ![c] = "done"]
              /\ UNCHANGED result
  /\ UNCHANGED <<variant, sandbox, output, fs, drawn, created, faults,
                 invocations, touched, parseVars, writeVars>>

\* `let _ = fs::remove_..(..); Ok(result)`: the removal's outcome is dropped
cleanup_propagating(removed, res) ==
  IF removed THEN Ok(res) ELSE Err("CleanupError")

cleanup_reporting(removed, res) ==
  IF removed THEN Ok(res) ELSE Ok([res EXCEPT !.success = FALSE])

cleanup_return(removed, res) == Ok(res)

\* lines 97-99, 145-147, 170-172
cleanup(c) ==
  /\ pc[c] = "cleanup"
  /\ \E removed \in BOOLEAN :
       /\ IF removed
          THEN fs' = remove_all(fs, sandbox[c])
          ELSE fs' \in remove_failed(fs, sandbox[c])
       /\ faults' = [faults EXCEPT ![c] = IF removed THEN @ ELSE @ \cup {"remove"}]
       /\ ret'    = [ret EXCEPT ![c] = cleanup_return(removed, result[c])]
  /\ touched' = touched \cup { <<c, sandbox[c]>> }
  /\ pc' = [pc EXCEPT ![c] = "done"]
  /\ UNCHANGED <<variant, sandbox, output, result, drawn, created, invocations,
                 parseVars, writeVars>>

Next ==
  \E c \in Calls :
    \/ check_code(c)
    \/ check_code_with_deps(c)
    \/ quick_check(c)
    \/ write_manifest(c)
    \/ create_src_dir(c)
    \/ write_main(c)
    \/ spawn(c)
    \/ parse(c)
    \/ cleanup(c)

Spec == Init /\ [][Next]_vars

\* ---------------------------------------------------------------- ParseSpec
ParseInit ==
  /\ LifeInit
  /\ WriteIdle
  /\ pOutput \in Outputs
  /\ pRet = Pending
  /\ pPc  = "captured"

\* parse_cargo_output(&output.stdout, &output.stderr)
ParseCaptured ==
  /\ pPc = "captured"
  /\ pRet' = parse_cargo_output(pOutput.stdout, pOutput.stderr)
  /\ pPc'  = "returned"
  /\ UNCHANGED <<pOutput, lifeVars, writeVars>>

ParseNext == ParseCaptured

ParseSpec == ParseInit /\ [][ParseNext]_vars

\* ---------------------------------------------------------------- WriteSpec
\* Text is a sequence of pieces; LF is a line feed and QUOTE a double quote.
LF    == "LF"
QUOTE == "QUOTE"

CodePieces == {"fn ", "main", "x"}

Snippets == SeqsUpTo(CodePieces, MaxCode)

\* names and versions arrive verbatim from the caller, nothing validates them
DepNames == { <<"serde">>, <<"rand">> }

DepVersions == { <<"1.0">>, <<"1", QUOTE, LF, "evil = ", QUOTE, "2">> }

Dependencies == { [name |-> n, version |-> v] : n \in DepNames, v \in DepVersions }

DependencyLists == SeqsUpTo(Dependencies, MaxDeps)

\* code.contains("fn main")
contains_fn_main(code) ==
  \E i \in 1..(Len(code) - 1) : code[i] = "fn " /\ code[i + 1] = "main"

\* lines 78-82: wrap the snippet unless it has the marker
wrap_always(code) == <<"fn ", "main", "() {", LF>> \o code \o <<LF, "}">>

wrapped_code(code) ==
  IF ~contains_fn_main(code)
  THEN <<"fn ", "main", "() {", LF>> \o code \o <<LF, "}">>
  ELSE code

\* lines 64-70 and 113-121: the manifest up to and including [dependencies]
cargo_toml ==
  << "[package]", LF,
     "name = ", QUOTE, "blockly_check", QUOTE, LF,
     "version = ", QUOTE, "0.1.0", QUOTE, LF,
     "edition = ", QUOTE, "2021", QUOTE, LF,
     LF,
     "[dependencies]", LF >>

\* format!("{} = \"{}\"\n", name, version)
dependency_line(dep) ==
  dep.name \o <<" = ", QUOTE>> \o dep.version \o <<QUOTE, LF>>

\* for (name, version) in dependencies { cargo_toml.push_str(..) }
RECURSIVE push_deps_reversed(_, _)
push_deps_reversed(toml, deps) ==
  IF deps = <<>> THEN toml
  ELSE push_deps_reversed(toml, Tail(deps)) \o dependency_line(Head(deps))

RECURSIVE push_deps(_, _)
push_deps(toml, deps) ==
  IF deps = <<>> THEN toml
  ELSE push_deps(toml \o dependency_line(Head(deps)), Tail(deps))

cargo_toml_with_deps(deps) == push_deps(cargo_toml, deps)

WriteInit ==
  /\ LifeInit
  /\ ParseIdle
  /\ wCode \in Snippets
  /\ wDeps \in DependencyLists
  /\ wMode  = "-"
  /\ wFiles = {}
  /\ wPc    = "input"

Written(mode, files) ==
  /\ wPc = "input"
  /\ wMode'  = mode
  /\ wFiles' = files
  /\ wPc'    = "written"
  /\ UNCHANGED <<wCode, wDeps, lifeVars, parseVars>>

\* check_code(code): lines 71 and 84
check_code_writes ==
  Written("Full", { <<"Cargo.toml", cargo_toml>>,
                    <<"src/main.rs", wrapped_code(wCode)>> })

\* check_code_with_deps(code, dependencies): lines 127 and 132
check_code_with_deps_writes ==
  Written("WithDependencies",
          { <<"Cargo.toml", cargo_toml_with_deps(wDeps)>>,
            <<"src/main.rs", wCode>> })

\* quick_check(code): line 155
quick_check_writes ==
  Written("Quick", { <<"check_<uuid>.rs", wCode>> })

WriteNext ==
  \/ check_code_writes
  \/ check_code_with_deps_writes
  \/ quick_check_writes

WriteSpec == WriteInit /\ [][WriteNext]_vars

\* =================================================================== claims
InFlight(c) == pc[c] \notin {"idle", "done"}

OnDisk(root) == \E p \in fs : Root(p) = root

\* C1: the sandbox a call created is gone from disk when the call has
\* returned, on every exit path (removal itself not having failed).
C1_SandboxRemovedOnEveryExit ==
  \A c \in Calls :
    (pc[c] = "done" /\ created[c] /\ "remove" \notin faults[c])
      => ~OnDisk(sandbox[c])

\* C2: two calls in flight never hold the same sandbox path, and no call
\* creates, writes, reads or removes anything under a sandbox path that
\* another call allocated.
C2_SandboxIsolation ==
  \A c \in Calls : \A d \in Calls \ {c} :
    /\ (InFlight(c) /\ InFlight(d)) => sandbox[c] # sandbox[d]
    /\ sandbox[d] # NoPath => <<c, sandbox[d]>> \notin touched

C2_Witness ==
  \E c \in Calls : \E d \in Calls \ {c} :
    /\ pc[c] = "cleanup" /\ pc[d] = "cleanup"
    /\ variant[c] = variant[d]
    /\ OnDisk(sandbox[c]) /\ OnDisk(sandbox[d])

\* ---- what the tool emitted, read off the raw stream position by position
\* token i stands alone on its line
OwnLine(s, i) ==
  /\ i \in 1..Len(s)
  /\ (i = 1 \/ s[i - 1] = NL)
  /\ (i = Len(s) \/ s[i + 1] = NL)

\* token i is a diagnostic message on a line of its own
IsDiagnostic(s, i) == OwnLine(s, i) /\ s[i].top = "payload"

HasRendered(tok) == tok.rendered \in {"r1", "r2"}

\* the severity the fixed table gives a diagnostic
Severity(tok) ==
  IF tok.level = "warning" THEN "Warning"
  ELSE IF tok.level = "note" THEN "Note"
  ELSE IF tok.level = "help" THEN "Help"
  ELSE "Error"

Returned == pPc = "returned" /\ pRet.kind = "Ok"

\* C3: a returned CompilationResult has success exactly when its errors
\* list is empty, whatever the tool printed; warnings do not count.
C3_SuccessIffNoErrors ==
  pPc = "returned" =>
    /\ pRet.kind = "Ok"
    /\ pRet.value.success = (Len(pRet.value.errors) = 0)

C3_Witness ==
  /\ Returned
  /\ Len(pRet.value.warnings) > 0
  /\ Len(pRet.value.errors) = 0
  /\ pRet.value.success

\* C4 as claimed: any diagnostic of severity "error" in the tool's output,
\* with or without rendered text, makes success false and errors non-empty.
C4_AnyErrorDiagnosticFails ==
  (pPc = "returned"
     /\ \E i \in 1..Len(pOutput.stdout) :
          IsDiagnostic(pOutput.stdout, i) /\ pOutput.stdout[i].level = "error")
    => (pRet.kind = "Ok" /\ ~pRet.value.success /\ Len(pRet.value.errors) > 0)

\* C4 amended: a diagnostic of severity "error" that carries rendered text
\* makes success false and errors non-empty, with or without code and spans.
C4_RenderedErrorDiagnosticFails ==
  (pPc = "returned"
     /\ \E i \in 1..Len(pOutput.stdout) :
          /\ IsDiagnostic(pOutput.stdout, i)
          /\ pOutput.stdout[i].level = "error"
          /\ HasRendered(pOutput.stdout[i]))
    => (pRet.kind = "Ok" /\ ~pRet.value.success /\ Len(pRet.value.errors) > 0)

C4_Witness ==
  /\ Returned
  /\ \E i \in 1..Len(pOutput.stdout) :
       /\ IsDiagnostic(pOutput.stdout, i)
       /\ pOutput.stdout[i] = Msg("r1", "error", "absent", "absent")
  /\ ~pRet.value.success
  /\ Len(pRet.value.errors) = 1

\* C5: a call that has returned returned Err exactly when directory
\* creation, a file write or the spawn failed, returned a CompilationResult
\* otherwise, and ran the tool at most once.
SetupOrSpawnFailed(c) ==
  faults[c] \cap {"create_dir_all", "write", "spawn"} # {}

C5_ErrIffSetupOrSpawnFailed ==
  \A c \in Calls :
    /\ invocations[c] <= 1
    /\ pc[c] = "done" =>
         /\ IsErr(ret[c]) <=> SetupOrSpawnFailed(c)
         /\ ~IsErr(ret[c]) => ret[c].kind = "Ok"
         /\ ret[c].kind = "SetupError"
              <=> faults[c] \cap {"create_dir_all", "write"} # {}
         /\ ret[c].kind = "InvocationError" <=> "spawn" \in faults[c]

C5_Witness ==
  \E c \in Calls :
    /\ pc[c] = "done"
    /\ ret[c].kind = "Ok"
    /\ ~ret[c].value.success
    /\ GARBAGE \in { output[c].stdout[i] : i \in 1..Len(output[c].stdout) }
    /\ "remove" \in faults[c]
    /\ invocations[c] = 1

\* ---- the stream with its unparseable lines removed
RECURSIVE Unlines(_)
Unlines(ls) ==
  IF ls = <<>> THEN <<>>
  ELSE IF Len(ls) = 1 THEN Head(ls)
  ELSE Head(ls) \o <<NL>> \o Unlines(Tail(ls))

IsJsonLine(line) == Len(line) = 1 /\ line[1].top \in JsonTops

WithoutUnparseableLines(bytes) ==
  Unlines(SelectSeq(lines(bytes), IsJsonLine))

WellFormed ==
  { m \in Payloads : HasRendered(m) /\ m.level \in {"error", "warning"} }

\* C6: unparseable lines are skipped and the parse goes on: errors and
\* warnings are those of the same stream without its unparseable lines, and
\* one well-formed message with one garbage line, in either order, gives
\* exactly one diagnostic.
C6_MalformedLinesSkipped ==
  pPc = "returned" =>
    LET clean == parse_cargo_output(WithoutUnparseableLines(pOutput.stdout),
                                    pOutput.stderr)
    IN  /\ pRet.kind = "Ok"
        /\ clean.kind = "Ok"
        /\ pRet.value.errors = clean.value.errors
        /\ pRet.value.warnings = clean.value.warnings
        /\ \A m \in WellFormed :
             pOutput.stdout \in { <<m, NL, GARBAGE>>, <<GARBAGE, NL, m>> }
               => Len(pRet.value.errors) + Len(pRet.value.warnings) = 1

C6_Witness ==
  /\ Returned
  /\ pOutput.stdout = << GARBAGE, NL, Msg("r1", "error", "absent", "absent") >>
  /\ Len(pRet.value.errors) = 1
  /\ Len(pRet.value.warnings) = 0

\* C7: a diagnostic with rendered text whose severity is not one of "error",
\* "warning", "note", "help" (or is absent or not a string) is reported in
\* errors with level Error and makes success false; errors holds one entry
\* for every diagnostic of severity Error.
UnknownSeverity(tok) == tok.level \notin LevelStrings

C7_UnknownSeverityIsError ==
  pPc = "returned" =>
    /\ pRet.kind = "Ok"
    /\ \A i \in 1..Len(pOutput.stdout) :
         (/\ IsDiagnostic(pOutput.stdout, i)
          /\ HasRendered(pOutput.stdout[i])
          /\ UnknownSeverity(pOutput.stdout[i]))
           => /\ ~pRet.value.success
              /\ \E k \in 1..Len(pRet.value.errors) :
                   /\ pRet.value.errors[k].level = "Error"
                   /\ pRet.value.errors[k].message = pOutput.stdout[i].rendered
    /\ Len(pRet.value.errors) =
         Cardinality({ i \in 1..Len(pOutput.stdout) :
                         /\ IsDiagnostic(pOutput.stdout, i)
                         /\ HasRendered(pOutput.stdout[i])
                         /\ Severity(pOutput.stdout[i]) = "Error" })

C7_Witness ==
  /\ Returned
  /\ pOutput.stdout = << Msg("r1", "fatal", "absent", "absent"), NL,
                         Msg("r1", "nonstr", "absent", "absent") >>
  /\ Len(pRet.value.errors) = 2
  /\ ~pRet.value.success

\* C8: errors holds only level Error, warnings only level Warning, and a
\* Note or Help diagnostic is in neither list: the two lists together hold
\* one entry per diagnostic of severity Error or Warning.
C8_ClassifiedByLevel ==
  pPc = "returned" =>
    /\ pRet.kind = "Ok"
    /\ \A k \in 1..Len(pRet.value.errors) : pRet.value.errors[k].level = "Error"
    /\ \A k \in 1..Len(pRet.value.warnings) :
         pRet.value.warnings[k].level = "Warning"
    /\ Len(pRet.value.errors) + Len(pRet.value.warnings) =
         Cardinality({ i \in 1..Len(pOutput.stdout) :
                         /\ IsDiagnostic(pOutput.stdout, i)
                         /\ HasRendered(pOutput.stdout[i])
                         /\ Severity(pOutput.stdout[i]) \in {"Error", "Warning"} })

C8_Witness ==
  /\ Returned
  /\ pOutput.stdout = << Msg("r1", "note", "absent", "absent"), NL,
                         Msg("r1", "help", "absent", "absent") >>
  /\ pRet.value.errors = <<>>
  /\ pRet.value.warnings = <<>>
  /\ pRet.value.success

\* ---- the rendered texts of the diagnostics of one severity among the
\* first n tokens, in the order the tool printed them
RECURSIVE Emitted(_, _, _)
Emitted(s, n, sev) ==
  IF n = 0 THEN <<>>
  ELSE Emitted(s, n - 1, sev)
         \o (IF IsDiagnostic(s, n) /\ HasRendered(s[n]) /\ Severity(s[n]) = sev
             THEN << s[n].rendered >> ELSE <<>>)

Messages(list) == [k \in 1..Len(list) |-> list[k].message]

\* C9: errors, and warnings, list the accepted lines of their severity in
\* the order of the stdout lines, one entry per line.
C9_EmissionOrderPreserved ==
  pPc = "returned" =>
    /\ pRet.kind = "Ok"
    /\ Messages(pRet.value.errors)
         = Emitted(pOutput.stdout, Len(pOutput.stdout), "Error")
    /\ Messages(pRet.value.warnings)
         = Emitted(pOutput.stdout, Len(pOutput.stdout), "Warning")

C9_Witness ==
  /\ Returned
  /\ pOutput.stdout = << Msg("r1", "error", "absent", "absent"), NL,
                         Msg("r2", "error", "E0308", "one") >>
  /\ Messages(pRet.value.errors) = << "r1", "r2" >>

\* ---- no line of the stream is a diagnostic the parser accepts
NoParseableDiagnostic(s) ==
  \A i \in 1..Len(s) : ~(IsDiagnostic(s, i) /\ HasRendered(s[i]))

EmptySuccess ==
  /\ pRet.kind = "Ok"
  /\ pRet.value.errors = <<>>
  /\ pRet.value.warnings = <<>>
  /\ pRet.value.success

\* the text is the byte stream except that invalid bytes read as U+FFFD
DecodedFrom(text, bytes) ==
  /\ Len(text) = Len(bytes)
  /\ \A i \in 1..Len(bytes) :
       text[i] = IF bytes[i] = BADBYTE THEN FFFD ELSE bytes[i]

\* C10 as claimed: without a parseable diagnostic in stdout the result is an
\* empty success whatever the exit status, and its stdout and stderr are
\* the captured streams unchanged.
C10_EmptySuccessRawUnchanged ==
  (pPc = "returned" /\ NoParseableDiagnostic(pOutput.stdout)) =>
    /\ EmptySuccess
    /\ pRet.value.stdout = pOutput.stdout
    /\ pRet.value.stderr = pOutput.stderr

\* C10 amended: without a parseable diagnostic in stdout the result is an
\* empty success whatever the exit status, and its stdout and stderr are
\* the captured streams decoded lossily: unchanged where they are valid
\* UTF-8, U+FFFD for every invalid byte sequence.
C10_EmptySuccessRawDecoded ==
  (pPc = "returned" /\ NoParseableDiagnostic(pOutput.stdout)) =>
    /\ EmptySuccess
    /\ DecodedFrom(pRet.value.stdout, pOutput.stdout)
    /\ DecodedFrom(pRet.value.stderr, pOutput.stderr)

C10_Witness ==
  /\ Returned
  /\ pOutput.status = 101
  /\ pOutput.stdout = << GARBAGE, NL, BADBYTE >>
  /\ pRet.value.success
  /\ pRet.value.stdout = << GARBAGE, NL, FFFD >>
  /\ pRet.value.stderr = << GARBAGE, FFFD >>

\* the tool ran for call c and handed back its output
ToolRan(c) == invocations[c] = 1 /\ "spawn" \notin faults[c]

\* C11: two checks of the same variant for which the tool emitted the same
\* output return the same kind of value with the same success and the same
\* numbers of errors and warnings, whatever their sandbox identifiers and
\* whatever earlier checks left behind.
C11_IdenticalChecksAgree ==
  \A c \in Calls : \A d \in Calls \ {c} :
    (/\ pc[c] = "done" /\ pc[d] = "done"
     /\ variant[c] = variant[d]
     /\ ToolRan(c) /\ ToolRan(d)
     /\ output[c] = output[d])
      => /\ ret[c].kind = ret[d].kind
         /\ ret[c].value.success = ret[d].value.success
         /\ Len(ret[c].value.errors) = Len(ret[d].value.errors)
         /\ Len(ret[c].value.warnings) = Len(ret[d].value.warnings)

C11_Witness ==
  \E c \in Calls : \E d \in Calls \ {c} :
    /\ pc[c] = "done" /\ pc[d] = "done"
    /\ variant[c] = "Full" /\ variant[d] = "Full"
    /\ output[c] = FailingOutput /\ output[d] = FailingOutput
    /\ sandbox[c] # sandbox[d]
    /\ "remove" \in faults[c] /\ OnDisk(sandbox[c])
    /\ ret[c].kind = "Ok" /\ ret[d].kind = "Ok"
    /\ Len(ret[c].value.errors) = 1 /\ Len(ret[d].value.errors) = 1

\* C12: when the removal of the sandbox fails the call still returns Ok
\* with the result it parsed from the tool's output, the same as a call whose
\* removal succeeded, and the sandbox stays on disk.
C12_RemovalFailureSwallowed ==
  \A c \in Calls :
    "remove" \in faults[c] =>
      /\ pc[c] = "done"
      /\ ret[c] = Ok(result[c])
      /\ ret[c] = parse_cargo_output(output[c].stdout, output[c].stderr)
      /\ sandbox[c] \in fs
      /\ \A d \in Calls :
           (/\ pc[d] = "done" /\ ToolRan(d) /\ "remove" \notin faults[d]
            /\ output[d] = output[c])
             => ret[d] = ret[c]

C12_Witness ==
  \E c \in Calls : \E d \in Calls \ {c} :
    /\ pc[c] = "done" /\ "remove" \in faults[c]
    /\ pc[d] = "done" /\ ToolRan(d) /\ "remove" \notin faults[d]
    /\ output[c] = FailingOutput /\ output[d] = FailingOutput
    /\ ret[c].kind = "Ok" /\ ~ret[c].value.success
    /\ sandbox[c] \in fs /\ ~OnDisk(sandbox[d])

\* ---- what a call wrote
HasFile(name) == \E f \in wFiles : f[1] = name

FileText(name) == (CHOOSE f \in wFiles : f[1] = name)[2]

SourceFile == IF wMode = "Quick" THEN "check_<uuid>.rs" ELSE "src/main.rs"

HasMarker(code) ==
  \E i \in 1..Len(code) : i < Len(code) /\ code[i] = "fn " /\ code[i + 1] = "main"

\* the text is the snippet between the opening and the closing of a main
WrappedInMain(text, code) ==
  /\ Len(text) = Len(code) + 6
  /\ SubSeq(text, 1, 4) = <<"fn ", "main", "() {", LF>>
  /\ SubSeq(text, 5, Len(code) + 4) = code
  /\ SubSeq(text, Len(code) + 5, Len(code) + 6) = <<LF, "}">>

\* the source unit: verbatim, except in Full mode without the marker
SourceAsClaimed ==
  /\ HasFile(SourceFile)
  /\ wMode \in {"WithDependencies", "Quick"} => FileText(SourceFile) = wCode
  /\ wMode = "Full" =>
       /\ FileText(SourceFile) = wCode <=> HasMarker(wCode)
       /\ ~HasMarker(wCode) => WrappedInMain(FileText(SourceFile), wCode)

\* the manifest after its fixed head, which ends with the [dependencies] line
StartsWithHead(manifest) ==
  /\ Len(manifest) >= Len(cargo_toml)
  /\ SubSeq(manifest, 1, Len(cargo_toml)) = cargo_toml

DependencySection(manifest) ==
  SubSeq(manifest, Len(cargo_toml) + 1, Len(manifest))

RECURSIVE TextLines(_, _)
TextLines(text, cur) ==
  IF text = <<>> THEN (IF cur = <<>> THEN <<>> ELSE <<cur>>)
  ELSE IF Head(text) = LF THEN <<cur>> \o TextLines(Tail(text), <<>>)
  ELSE TextLines(Tail(text), Append(cur, Head(text)))

\* name = "version"
NameEqVersion(dep) == dep.name \o <<" = ", QUOTE>> \o dep.version \o <<QUOTE>>

\* the first n pairs, each as name = "version" and a line feed
RECURSIVE DependencyText(_, _)
DependencyText(deps, n) ==
  IF n = 0 THEN <<>>
  ELSE DependencyText(deps, n - 1) \o NameEqVersion(deps[n]) \o <<LF>>

HasLineBreak(str) == \E i \in 1..Len(str) : str[i] = LF

OneLinePerPair(section, deps) ==
  LET ls == TextLines(section, <<>>)
  IN  /\ Len(ls) = Len(deps)
      /\ \A k \in 1..Len(deps) : ls[k] = NameEqVersion(deps[k])

ManifestOfFull ==
  wMode = "Full" =>
    /\ HasFile("Cargo.toml")
    /\ StartsWithHead(FileText("Cargo.toml"))
    /\ DependencySection(FileText("Cargo.toml")) = <<>>

\* C13 as claimed: the source unit is the snippet verbatim, except that Full
\* wraps a snippet without "fn main" in a main function; Full's manifest has
\* an empty dependency section and WithDependencies' manifest has exactly
\* one line name = "version" per supplied pair, in the supplied order.
C13_SourceAndOneLinePerPair ==
  wPc = "written" =>
    /\ SourceAsClaimed
    /\ ManifestOfFull
    /\ wMode = "WithDependencies" =>
         /\ HasFile("Cargo.toml")
         /\ StartsWithHead(FileText("Cargo.toml"))
         /\ OneLinePerPair(DependencySection(FileText("Cargo.toml")), wDeps)

\* C13 amended: as above for the source unit and Full's manifest; the
\* dependency section of WithDependencies is, pair by pair in the supplied
\* order, the name, ` = "`, the version, `"` and a line feed, all verbatim,
\* which is one line per pair when no name or version holds a line break.
C13_SourceAndVerbatimPairs ==
  wPc = "written" =>
    /\ SourceAsClaimed
    /\ ManifestOfFull
    /\ wMode = "Quick" => ~HasFile("Cargo.toml")
    /\ wMode = "WithDependencies" =>
         /\ HasFile("Cargo.toml")
         /\ StartsWithHead(FileText("Cargo.toml"))
         /\ DependencySection(FileText("Cargo.toml"))
              = DependencyText(wDeps, Len(wDeps))
         /\ (\A k \in 1..Len(wDeps) :
               ~HasLineBreak(wDeps[k].name) /\ ~HasLineBreak(wDeps[k].version))
              => OneLinePerPair(DependencySection(FileText("Cargo.toml")), wDeps)

C13_Witness ==
  /\ wPc = "written"
  /\ wMode = "WithDependencies"
  /\ wCode = <<"x">>
  /\ FileText("src/main.rs") = <<"x">>
  /\ wDeps = << [name |-> <<"serde">>, version |-> <<"1.0">>],
                [name |-> <<"rand">>,
                 version |-> <<"1", QUOTE, LF, "evil = ", QUOTE, "2">>] >>
  /\ Len(TextLines(DependencySection(FileText("Cargo.toml")), <<>>)) = 3

====
